---------------------------- MODULE Spec2Model ----------------------------
(***************************************************************************)
(* A model of .github/scripts/generate-stats.js: the run of main() as a   *)
(* state machine (repository listing, commit fetching, statistics,        *)
(* language aggregation, README update) and its pure helpers as           *)
(* operators.                                                             *)
(*                                                                         *)
(* Dates.  A 'YYYY-MM-DD' string is the triple <<y, m, d>>.  A Date is    *)
(* an instant, counted in hours since 1970-01-01T00:00Z.  new Date(s) of  *)
(* a date-only string is the UTC midnight of DayNumber(s), and            *)
(* toISOString().split('T')[0] is the UTC date of the instant.  getDate,  *)
(* setDate and getFullYear work on the local time of the process's time   *)
(* zone, which has an offset from UTC and may have daylight saving time.  *)
(*                                                                         *)
(* Percentages.  A one-decimal string such as "33.3" is the integer       *)
(* number of tenths, 333.                                                 *)
(***************************************************************************)
EXTENDS Integers, Sequences, FiniteSets, TLC

VARIABLES
  token,          \* process.env.GITHUB_TOKEN is set
  username,       \* process.env.USERNAME is set
  srv,            \* the account on the server: [n, nonFork]
  now,            \* new Date() in calculateStreaks: hours since the epoch
  zone,           \* the time zone of the process
  pc,             \* position of main()
  page,           \* getAllRepos: page
  repos,          \* getAllRepos: repos / main: repos
  requests,       \* every request handed to https.get, in order
  repoIdx,        \* main: position of the for loop over repos (1-based)
  allDates,       \* main: allDates
  streaks,        \* main: streaks
  yearlyStats,    \* main: yearlyStats
  langIdx,        \* getLanguageStats: position of the for loop over repos
  languages,      \* getLanguageStats: languages, in insertion order
  languageStats,  \* main: languageStats
  readmeFile,     \* README.md on disk
  writes,         \* number of fs.writeFileSync calls
  error,          \* the error main().catch logged or the exception that
                  \* was not caught, None if there was none
  exitCode        \* process exit status; -1 while running

vars == <<token, username, srv, now, zone, pc, page, repos, requests, repoIdx,
          allDates, streaks, yearlyStats, langIdx, languages, languageStats,
          readmeFile, writes, error, exitCode>>

None == "none"

----------------------------------------------------------------------------
(* Sequence helpers *)

RECURSIVE SeqToSet(_)
SeqToSet(s) == IF s = <<>> THEN {} ELSE {Head(s)} \cup SeqToSet(Tail(s))

Contains(s, x) == \E i \in 1..Len(s) : s[i] = x

\* PutLast with an unstable order: the last element also passes the elements
\* whose key equals its own
RECURSIVE PutLastUnstable(_, _)
PutLastUnstable(t, last) ==
  IF t = <<>> THEN <<last>>
  ELSE IF last[1] >= t[Len(t)][1]
       THEN PutLastUnstable(SubSeq(t, 1, Len(t) - 1), last) \o <<t[Len(t)]>>
       ELSE t \o <<last>>

\* Array.prototype.sort((a, b) => key(b) - key(a)) over a sequence of
\* <<key, value>> pairs: descending by key, stable (equal keys keep their
\* order).  PutLast places the last element after every element whose key is
\* not smaller than its own.
RECURSIVE PutLast(_, _)
PutLast(t, last) ==
  IF t = <<>> THEN <<last>>
  ELSE IF last[1] > t[Len(t)][1]
       THEN PutLast(SubSeq(t, 1, Len(t) - 1), last) \o <<t[Len(t)]>>
       ELSE t \o <<last>>

RECURSIVE SortDescByKey(_)
SortDescByKey(s) ==
  IF s = <<>> THEN <<>>
  ELSE PutLast(SortDescByKey(SubSeq(s, 1, Len(s) - 1)), s[Len(s)])

Max(a, b) == IF a >= b THEN a ELSE b

----------------------------------------------------------------------------
(* Calendar: the Date conversions the script uses *)

\* new Date('YYYY-MM-DD') / 86400000: days since the epoch of a civil date
DayNumber(date) ==
  LET y   == IF date[2] <= 2 THEN date[1] - 1 ELSE date[1]
      era == y \div 400
      yoe == y - era * 400
      mp  == IF date[2] > 2 THEN date[2] - 3 ELSE date[2] + 9
      doy == (153 * mp + 2) \div 5 + date[3] - 1
      doe == yoe * 365 + yoe \div 4 - yoe \div 100 + doy
  IN era * 146097 + doe - 719468

\* date.toISOString().split('T')[0]: the civil date of a day number
IsoDate(n) ==
  LET z   == n + 719468
      era == z \div 146097
      doe == z - era * 146097
      yoe == (doe - doe \div 1460 + doe \div 36524 - doe \div 146096) \div 365
      doy == doe - (365 * yoe + yoe \div 4 - yoe \div 100)
      mp  == (5 * doy + 2) \div 153
      d   == doy - (153 * mp + 2) \div 5 + 1
      m   == IF mp < 10 THEN mp + 3 ELSE mp - 9
      y   == yoe + era * 400
  IN <<IF m <= 2 THEN y + 1 ELSE y, m, d>>

\* 1000 * 60 * 60 * 24 ms, in hours
HoursPerDay == 24

\* the instant of the hour h of the UTC date, and the UTC day of an instant
Instant(date, h) == DayNumber(date) * HoursPerDay + h
UtcDay(t) == t \div HoursPerDay

\* time zones: the offset of standard time in hours, and the instants
\* between which daylight saving time, one hour ahead, is in force
Utc     == [name |-> "UTC", std |-> 0, dstFrom |-> 0, dstTo |-> 0]
London  == [name    |-> "Europe/London", std |-> 0,
            dstFrom |-> Instant(<<2024, 3, 31>>, 1),
            dstTo   |-> Instant(<<2024, 10, 27>>, 1)]
NewYork == [name    |-> "America/New_York", std |-> -5,
            dstFrom |-> Instant(<<2024, 3, 10>>, 7),
            dstTo   |-> Instant(<<2024, 11, 3>>, 6)]
Zones   == {Utc, London, NewYork}

\* the offset of local time at the instant t, and the local time of t
Offset(z, t) == IF z.dstFrom <= t /\ t < z.dstTo THEN z.std + 1 ELSE z.std
LocalTime(z, t) == t + Offset(z, t)

\* the instant of a local time; a local time that is skipped or repeated at
\* a change of offset is taken with the offset before the change
InstantOfLocal(z, l) ==
  LET early == l - (z.std + 1)
      late  == l - z.std
  IN IF Offset(z, early) = z.std + 1 THEN early ELSE late

\* checkDate.setDate(checkDate.getDate() - 1): the same local time on the
\* local day before
DayBefore(z, t) == InstantOfLocal(z, LocalTime(z, t) - HoursPerDay)

\* new Date(date).getFullYear(): the local year at the UTC midnight of date
FullYear(date, z) == IsoDate(UtcDay(LocalTime(z, Instant(date, 0))))[1]

----------------------------------------------------------------------------
(* Statistics calculator *)

\* [...new Set(dates)]: the distinct elements, in order of first occurrence
RECURSIVE Dedupe(_)
Dedupe(s) ==
  IF s = <<>> THEN <<>>
  ELSE LET front == Dedupe(SubSeq(s, 1, Len(s) - 1))
       IN IF Contains(front, s[Len(s)]) THEN front
          ELSE Append(front, s[Len(s)])

\* [...new Set(dates)].sort((a, b) => new Date(b) - new Date(a))
SortedDates(dates) ==
  LET d     == Dedupe(dates)
      keyed == SortDescByKey([i \in 1..Len(d) |-> <<DayNumber(d[i]), d[i]>>])
  IN [i \in 1..Len(keyed) |-> keyed[i][2]]

\* the loop of the current streak: i is the loop index, checkDate the
\* instant of checkDate, current the value of currentStreak; dateStr is the
\* UTC date of checkDate, and checkDate goes back by a local day
RECURSIVE CurrentStreakLoop(_, _, _, _, _)
CurrentStreakLoop(sortedDates, i, checkDate, current, z) ==
  IF i >= Len(sortedDates) THEN current
  ELSE IF Contains(sortedDates, IsoDate(UtcDay(checkDate)))
       THEN CurrentStreakLoop(sortedDates, i + 1, DayBefore(z, checkDate),
                              current + 1, z)
       ELSE current

\* the loop of the longest streak: i is the (0-based) loop index; the value
\* is Math.max(longestStreak, tempStreak) after the loop
RECURSIVE LongestStreakLoop(_, _, _, _)
LongestStreakLoop(sortedDates, i, tempStreak, longestStreak) ==
  IF i >= Len(sortedDates) THEN Max(longestStreak, tempStreak)
  ELSE IF i = 0 THEN LongestStreakLoop(sortedDates, 1, 1, longestStreak)
  ELSE LET prev     == DayNumber(sortedDates[i])
           curr     == DayNumber(sortedDates[i + 1])
           diffDays == prev - curr
       IN IF diffDays = 1
          THEN LongestStreakLoop(sortedDates, i + 1, tempStreak + 1,
                                 longestStreak)
          ELSE LongestStreakLoop(sortedDates, i + 1, 1,
                                 Max(longestStreak, tempStreak))

\* calculateStreaks(dates), run at the instant t in the time zone z
calculateStreaks(dates, t, z) ==
  IF Len(dates) = 0 THEN [current |-> 0, longest |-> 0, total |-> 0]
  ELSE LET sortedDates == SortedDates(dates)
       IN [current |-> CurrentStreakLoop(sortedDates, 0, t, 0, z),
           longest |-> LongestStreakLoop(sortedDates, 0, 0, 0),
           total   |-> Len(sortedDates)]

\* the object yearly after dates.forEach: a function from the years seen to
\* [days, contributions]
RECURSIVE YearlyObject(_, _)
YearlyObject(dates, z) ==
  IF dates = <<>> THEN <<>>
  ELSE LET yearly == YearlyObject(SubSeq(dates, 1, Len(dates) - 1), z)
           date   == dates[Len(dates)]
           year   == FullYear(date, z)
           old    == IF year \in DOMAIN yearly THEN yearly[year]
                     ELSE [days |-> {}, contributions |-> 0]
           new    == [days |-> old.days \cup {date},
                      contributions |-> old.contributions + 1]
       IN [y \in DOMAIN yearly \cup {year} |->
             IF y = year THEN new ELSE yearly[y]]

\* Object.entries of an object with integer keys: ascending by key
RECURSIVE EntriesAscending(_)
EntriesAscending(obj) ==
  IF DOMAIN obj = {} THEN <<>>
  ELSE LET k == CHOOSE x \in DOMAIN obj : \A y \in DOMAIN obj : x <= y
       IN <<<<k, obj[k]>>>> \o
          EntriesAscending([y \in DOMAIN obj \ {k} |-> obj[y]])

\* calculateYearlyStats(dates), run in the time zone z
calculateYearlyStats(dates, z) ==
  LET sorted == SortDescByKey(EntriesAscending(YearlyObject(dates, z)))
  IN [i \in 1..Len(sorted) |->
        [year          |-> sorted[i][1],
         activeDays    |-> Cardinality(sorted[i][2].days),
         contributions |-> sorted[i][2].contributions]]

----------------------------------------------------------------------------
(* Language statistics *)

\* excludedLanguages with one capitalization of the preprocessor's name only
excludedLanguagesOneCase == <<"Open Policy Agent", "SCSS">>

\* getLanguageStats: excludedLanguages
excludedLanguages == <<"Open Policy Agent", "SCSS", "Scss">>

\* languages[lang] = (languages[lang] || 0) + bytes, on the object languages
\* kept as the sequence of its <<name, bytes>> entries in insertion order
AddBytes(langs, lang, bytes) ==
  IF \E i \in 1..Len(langs) : langs[i][1] = lang
  THEN [i \in 1..Len(langs) |->
          IF langs[i][1] = lang THEN <<lang, langs[i][2] + bytes>>
          ELSE langs[i]]
  ELSE Append(langs, <<lang, bytes>>)

\* the inner loop over Object.entries(repoLangs)
RECURSIVE AddRepoLanguages(_, _)
AddRepoLanguages(langs, repoLangs) ==
  IF repoLangs = <<>> THEN langs
  ELSE LET lang  == Head(repoLangs)[1]
           bytes == Head(repoLangs)[2]
       IN IF Contains(excludedLanguages, lang)
          THEN AddRepoLanguages(langs, Tail(repoLangs))
          ELSE AddRepoLanguages(AddBytes(langs, lang, bytes), Tail(repoLangs))

\* Object.values(languages).reduce((sum, bytes) => sum + bytes, 0)
RECURSIVE TotalBytes(_)
TotalBytes(langs) ==
  IF langs = <<>> THEN 0 ELSE Head(langs)[2] + TotalBytes(Tail(langs))

\* Percentage cut off after the first decimal instead of rounded
PercentageTruncated(bytes, total) == (1000 * bytes) \div total

\* Doubles.  A positive double is m * 2^x with m an integer of at most 53
\* binary digits; an integer of any size is the sequence of its binary
\* digits, the lowest first.

\* the significand of a double has 53 binary digits
MantissaBits == 53

\* bits * c + carry, for a small c
RECURSIVE TimesSmall(_, _, _)
TimesSmall(bits, c, carry) ==
  IF bits = <<>>
  THEN (IF carry = 0 THEN <<>>
        ELSE <<carry % 2>> \o TimesSmall(<<>>, c, carry \div 2))
  ELSE LET v == Head(bits) * c + carry
       IN <<v % 2>> \o TimesSmall(Tail(bits), c, v \div 2)

\* bits + 2^k
RECURSIVE PlusPowerOfTwo(_, _)
PlusPowerOfTwo(bits, k) ==
  IF k = 0 THEN TimesSmall(bits, 1, 1)
  ELSE IF bits = <<>> THEN <<0>> \o PlusPowerOfTwo(<<>>, k - 1)
       ELSE <<Head(bits)>> \o PlusPowerOfTwo(Tail(bits), k - 1)

RECURSIVE BitsValue(_)
BitsValue(bits) ==
  IF bits = <<>> THEN 0 ELSE Head(bits) + 2 * BitsValue(Tail(bits))

\* the double nearest to the integer bits, the one with the even significand
\* of two equally near: the significand m and the number of digits dropped
RoundToDouble(bits) ==
  IF Len(bits) <= MantissaBits THEN [m |-> bits, shift |-> 0]
  ELSE LET d      == Len(bits) - MantissaBits
           kept   == SubSeq(bits, d + 1, Len(bits))
           sticky == \E i \in 1..(d - 1) : bits[i] = 1
           up     == bits[d] = 1 /\ (sticky \/ kept[1] = 1)
           m      == IF up THEN TimesSmall(kept, 1, 1) ELSE kept
       IN IF Len(m) > MantissaBits
          THEN [m |-> Tail(m), shift |-> d + 1]
          ELSE [m |-> m, shift |-> d]

\* the least e with bytes * 2^e >= total, and bytes * 2^e
RECURSIVE Normalise(_, _, _)
Normalise(x, total, e) ==
  IF x >= total THEN <<x, e>> ELSE Normalise(2 * x, total, e + 1)

\* n more binary digits of the quotient by total, by long division from the
\* remainder r, put below the digits acc; a last digit below them tells
\* whether the division left a remainder
RECURSIVE QuotientBits(_, _, _, _)
QuotientBits(r, total, n, acc) ==
  IF n = 0 THEN <<IF r = 0 THEN 0 ELSE 1>> \o acc
  ELSE IF 2 * r >= total
       THEN QuotientBits(2 * r - total, total, n - 1, <<1>> \o acc)
       ELSE QuotientBits(2 * r, total, n - 1, <<0>> \o acc)

\* ((bytes / total) * 100).toFixed(1), in tenths, worked out on the doubles:
\* the division and the multiplication each give the nearest double, and
\* toFixed(1) gives the tenth nearest to the double that results, the larger
\* one when two are equally near
PercentageOfDouble(bytes, total) ==
  IF bytes = 0 THEN 0
  ELSE LET norm     == Normalise(bytes, total, 0)
           quotient == RoundToDouble(
                         QuotientBits(norm[1] - total, total, MantissaBits,
                                      <<1>>))
           product  == RoundToDouble(TimesSmall(quotient.m, 100, 0))
           s        == norm[2] + MantissaBits + 1
                         - quotient.shift - product.shift
           n        == PlusPowerOfTwo(TimesSmall(product.m, 10, 0), s - 1)
       IN BitsValue(SubSeq(n, s + 1, Len(n)))

\* ((bytes / total) * 100).toFixed(1), in tenths, for 0 <= bytes <= total.
\* The double is within 3 * 2^-47 of the exact share, and a share that is
\* not halfway between two tenths is at least 1 / (20 * total) away from
\* halfway, which is more for every total below 2^31: the double of such a
\* share is on the same side, and the tenth is the one nearest to the exact
\* share.  A share that is halfway goes as its double falls.
Percentage(bytes, total) ==
  LET d1    == (10 * bytes) \div total
      r1    == (10 * bytes) % total
      d2    == (10 * r1) \div total
      r2    == (10 * r1) % total
      d3    == (10 * r2) \div total
      r3    == (10 * r2) % total
      below == 100 * d1 + 10 * d2 + d3
  IN IF 2 * r3 = total THEN PercentageOfDouble(bytes, total)
     ELSE IF 2 * r3 > total THEN below + 1
     ELSE below

\* Object.entries(languages).map(([name, bytes]) => ({name, percentage}))
LanguagePercentages(langs) ==
  [i \in 1..Len(langs) |->
     [name       |-> langs[i][1],
      percentage |-> Percentage(langs[i][2], TotalBytes(langs))]]

\* .slice(0, 10)
TopLanguages == 10

\* the value getLanguageStats returns for the object languages
LanguageSummary(langs) ==
  LET mapped == LanguagePercentages(langs)
      sorted == SortDescByKey(
                  [i \in 1..Len(mapped) |-> <<mapped[i].percentage, mapped[i]>>])
      n      == IF Len(sorted) < TopLanguages THEN Len(sorted)
                ELSE TopLanguages
  IN [i \in 1..n |-> sorted[i][2]]

----------------------------------------------------------------------------
(* Report renderer *)

\* generateProgressBar(percentage, length = 20): the number of filled cells,
\* Math.round((percentage / 100) * length) with the percentage in tenths
BarLength == 20

generateProgressBar(percentage) == (percentage * BarLength + 500) \div 1000

\* languagesContent: one line per language of languageStats
LanguagesContent(stats) ==
  [i \in 1..Len(stats) |->
     [name       |-> stats[i].name,
      filled     |-> generateProgressBar(stats[i].percentage),
      empty      |-> BarLength - generateProgressBar(stats[i].percentage),
      percentage |-> stats[i].percentage]]

\* readme.replace(/<!-- X_START -->...<!-- X_END -->/, fragment): the slot
\* gets the fragment when the markers are there
ReplaceSlot(readme, slot, fragment) ==
  IF readme[slot] = None THEN readme
  ELSE [readme EXCEPT ![slot] = fragment]

\* the four replacements of main on the text read from README.md
RenderReadme(readme, str, yearly, stats, utcString) ==
  LET r1 == ReplaceSlot(readme, "streak", str)
      r2 == ReplaceSlot(r1, "yearly", yearly)
      r3 == ReplaceSlot(r2, "languages", LanguagesContent(stats))
  IN ReplaceSlot(r3, "updated", utcString)

----------------------------------------------------------------------------
(* The server and the inputs of a run *)

\* /user/repos?per_page=100
PerPage == 100

MaxFullPages == 1   \* full pages of the account's repository list
MaxRepos     == 2   \* non-fork repositories of the account
WindowLen    == 5   \* days the commit dates are drawn from
MaxDates     == 5   \* commits of the repository, statistics runs
MaxEntries   == 1   \* languages of one repository, the two special ones aside
MaxLangRepos == 2   \* repositories, language runs
BigBytes     == 2000 \* byte count of a language in a repository
MaxElapsed   == 1   \* hours from calculateStreaks to the rendering

SeqsUpTo(S, n) == UNION {[1..k -> S] : k \in 0..n}

\* the windows the commit dates are drawn from, by their first day: one over
\* the turn of a year, one over the start of daylight saving time in Europe
WindowFirsts == {<<2023, 12, 29>>, <<2024, 3, 28>>}
WindowLast(first) == DayNumber(first) + WindowLen - 1
DateWindow(first) == {IsoDate(n) : n \in DayNumber(first)..WindowLast(first)}

\* the instants at which the script may run: at noon or in the last hour,
\* UTC, of one of the last two days of the window
RunHours == {12, 23}
NowChoices(first) ==
  {day * HoursPerDay + h :
     day \in {WindowLast(first), WindowLast(first) - 1}, h \in RunHours}

\* the instants of the full runs
RunNows == {Instant(<<2024, 1, 1>>, 12), Instant(<<2024, 3, 31>>, 23)}

\* const today = new Date().toISOString().split('T')[0], as a day number
today == UtcDay(now)

\* a commit of the commits response: whether commit.commit.author is there,
\* and commit.commit.author.date without its time
NoAuthor == [author |-> FALSE, date |-> <<>>]
CommitsOf(D) == {[author |-> TRUE, date |-> d] : d \in D}

\* commits responses of the statistics runs and of the full run
StatsCommits(first) == SeqsUpTo(CommitsOf(DateWindow(first)), MaxDates)
RunCommits ==
  SeqsUpTo(CommitsOf({IsoDate(today), IsoDate(today - 1)}) \cup {NoAuthor}, 1)

\* language names of the responses: a plain one, an excluded one, and one
\* that differs from an excluded name in letter case only
LangNames == {"JavaScript", "scss", "SCSS"}
ByteChoices == {BigBytes, BigBytes + 1}

\* a repository with more languages than the summary keeps
WideNames ==
  <<"JavaScript", "HTML", "Python", "Go", "Rust", "C", "Java", "Ruby",
    "PHP", "Shell", "Kotlin">>
WideResponse ==
  [i \in 1..Len(WideNames) |-> <<WideNames[i], BigBytes + ((i + 1) % 2)>>]

\* a repository where every excluded language outweighs the one counted
ExcludedResponse ==
  <<<<"Open Policy Agent", BigBytes + 1>>, <<"Scss", BigBytes + 1>>,
    <<"HTML", BigBytes>>, <<"SCSS", BigBytes + 1>>>>

\* repositories with shares that are halfway between two tenths: 0.15% and
\* 99.85%, whose doubles fall below them; 6.25% and 93.75%, whose doubles
\* are exact
HalfwayBelowResponse == <<<<"JavaScript", 3>>, <<"HTML", 1997>>>>
HalfwayExactResponse == <<<<"JavaScript", 1>>, <<"HTML", 15>>>>

\* languages responses: the entries of a JSON object, names distinct
LangResponses ==
  {r \in SeqsUpTo(LangNames \X ByteChoices, MaxEntries) :
     \A i, j \in 1..Len(r) : i # j => r[i][1] # r[j][1]}
  \cup {WideResponse, ExcludedResponse, HalfwayBelowResponse,
        HalfwayExactResponse}
RunLangResponses ==
  {<<>>, <<<<"JavaScript", BigBytes>>>>,
   <<<<"SCSS", BigBytes + 1>>, <<"HTML", BigBytes>>>>}

\* the accounts: n repositories, all forks but those of nonFork, which are
\* first on their pages
PageStarts == {(p - 1) * PerPage + 1 : p \in 1..(MaxFullPages + 1)}
Accounts ==
  {a \in [n : {k * PerPage + r : k \in 0..MaxFullPages, r \in 0..1},
          nonFork : SUBSET PageStarts] :
     /\ \A i \in a.nonFork : i <= a.n
     /\ Cardinality(a.nonFork) <= MaxRepos}

\* the data of the response to /user/repos?per_page=100&page=p
ServerPage(account, p) ==
  LET rest == account.n - (p - 1) * PerPage
      len  == IF rest < 0 THEN 0 ELSE IF rest > PerPage THEN PerPage ELSE rest
  IN [i \in 1..len |->
        [id   |-> (p - 1) * PerPage + i,
         fork |-> ((p - 1) * PerPage + i) \notin account.nonFork]]

\* githubRequest resolves only on status 200, which the API gives to no
\* request without a valid credential
ServerAccepts == token

\* README.md with the four places main() replaces
OldReadme ==
  [streak |-> "old", yearly |-> "old", languages |-> "old", updated |-> "old"]

\* the file after a write that failed partway: the places of kept are in
\* the part of the new text that got written, the markers of the others are
\* not in the file any more
PartlyWritten(readme, kept) ==
  [slot \in DOMAIN readme |-> IF slot \in kept THEN readme[slot] ELSE None]

----------------------------------------------------------------------------
(* The run of main() *)

\* a call of githubRequest that has come to its end, with its outcome: the
\* promise "resolved" with the parsed body, or "rejected"; or the response
\* was "cut" short and the promise stays pending; or the body of a 200
\* response was "not JSON" and JSON.parse threw in the 'end' listener
Request(kind, arg, outcome, data) ==
  [kind |-> kind, arg |-> arg, ok |-> outcome = "resolved",
   outcome |-> outcome, data |-> data]

\* the state main() starts in
Init ==
  /\ token \in BOOLEAN
  /\ username \in BOOLEAN
  /\ srv \in Accounts
  /\ now \in RunNows
  /\ zone \in Zones
  /\ pc = "listing"
  /\ page = 1
  /\ repos = <<>>
  /\ requests = <<>>
  /\ repoIdx = 1
  /\ allDates = <<>>
  /\ streaks = None
  /\ yearlyStats = None
  /\ langIdx = 1
  /\ languages = <<>>
  /\ languageStats = None
  /\ readmeFile = OldReadme
  /\ writes = 0
  /\ error = None
  /\ exitCode = -1

\* ListPageOk with hasMore taken from the page after the forks are filtered
\* out
ListPageOkFilteredCount ==
  /\ pc = "listing"
  /\ ServerAccepts
  /\ LET data           == ServerPage(srv, page)
         nonForkedRepos == SelectSeq(data, LAMBDA repo : ~repo.fork)
         hasMore        == Len(nonForkedRepos) = PerPage
     IN /\ requests' = Append(requests, Request("repos", page, "resolved", Len(data)))
        /\ repos' = repos \o nonForkedRepos
        /\ page' = page + 1
        /\ pc' = IF hasMore THEN "listing" ELSE "commits"
  /\ UNCHANGED <<token, username, srv, now, zone, repoIdx, allDates, streaks,
                 yearlyStats, langIdx, languages, languageStats, readmeFile,
                 writes, error, exitCode>>

\* getAllRepos: one turn of the while loop whose request resolves; the loop
\* ends, and main() goes on to the commits, when the page is not full
ListPageOk ==
  /\ pc = "listing"
  /\ ServerAccepts
  /\ LET data           == ServerPage(srv, page)
         nonForkedRepos == SelectSeq(data, LAMBDA repo : ~repo.fork)
         hasMore        == Len(data) = PerPage
     IN /\ requests' = Append(requests, Request("repos", page, "resolved", Len(data)))
        /\ repos' = repos \o nonForkedRepos
        /\ page' = page + 1
        /\ pc' = IF hasMore THEN "listing" ELSE "commits"
  /\ UNCHANGED <<token, username, srv, now, zone, repoIdx, allDates, streaks,
                 yearlyStats, langIdx, languages, languageStats, readmeFile,
                 writes, error, exitCode>>

\* getAllRepos: the request rejects; the rejection leaves getAllRepos and
\* main() and reaches main().catch, which logs it and exits with status 1
ListPageFail ==
  /\ pc = "listing"
  /\ requests' = Append(requests, Request("repos", page, "rejected", None))
  /\ pc' = "failed"
  /\ error' = "GitHub API error"
  /\ exitCode' = 1
  /\ UNCHANGED <<token, username, srv, now, zone, page, repos, repoIdx, allDates,
                 streaks, yearlyStats, langIdx, languages, languageStats,
                 readmeFile, writes>>

\* the dates main() pushes for the commits of one response
RECURSIVE CommitDates(_)
CommitDates(commits) ==
  IF commits = <<>> THEN <<>>
  ELSE IF Head(commits).author
       THEN <<Head(commits).date>> \o CommitDates(Tail(commits))
       ELSE CommitDates(Tail(commits))

\* main(): one turn of the loop over repos, getCommitActivity resolving with
\* the commits of the response
FetchCommitsOk(responses) ==
  /\ pc = "commits"
  /\ repoIdx <= Len(repos)
  /\ ServerAccepts
  /\ \E commits \in responses :
       /\ requests' = Append(requests,
                        Request("commits", repos[repoIdx].id, "resolved", commits))
       /\ allDates' = allDates \o CommitDates(commits)
  /\ repoIdx' = repoIdx + 1
  /\ UNCHANGED <<token, username, srv, now, zone, pc, page, repos, streaks,
                 yearlyStats, langIdx, languages, languageStats, readmeFile,
                 writes, error, exitCode>>

\* main(): one turn of the loop over repos, the request rejecting:
\* getCommitActivity catches, logs and returns []
FetchCommitsFail ==
  /\ pc = "commits"
  /\ repoIdx <= Len(repos)
  /\ requests' = Append(requests,
                   Request("commits", repos[repoIdx].id, "rejected", None))
  /\ allDates' = allDates \o CommitDates(<<>>)
  /\ repoIdx' = repoIdx + 1
  /\ UNCHANGED <<token, username, srv, now, zone, pc, page, repos, streaks,
                 yearlyStats, langIdx, languages, languageStats, readmeFile,
                 writes, error, exitCode>>

\* main(): calculateStreaks(allDates) and calculateYearlyStats(allDates)
\* after the loop over repos; getLanguageStats starts
CalculateStatistics ==
  /\ pc = "commits"
  /\ repoIdx > Len(repos)
  /\ streaks' = calculateStreaks(allDates, now, zone)
  /\ yearlyStats' = calculateYearlyStats(allDates, zone)
  /\ pc' = "languages"
  /\ UNCHANGED <<token, username, srv, now, zone, page, repos, requests, repoIdx,
                 allDates, langIdx, languages, languageStats, readmeFile,
                 writes, error, exitCode>>

\* getLanguageStats: one turn of the loop over repos, the request resolving
FetchLanguagesOk(responses) ==
  /\ pc = "languages"
  /\ langIdx <= Len(repos)
  /\ ServerAccepts
  /\ \E repoLangs \in responses :
       /\ requests' = Append(requests,
                        Request("languages", repos[langIdx].id, "resolved", repoLangs))
       /\ languages' = AddRepoLanguages(languages, repoLangs)
  /\ langIdx' = langIdx + 1
  /\ UNCHANGED <<token, username, srv, now, zone, pc, page, repos, repoIdx,
                 allDates, streaks, yearlyStats, languageStats, readmeFile,
                 writes, error, exitCode>>

\* getLanguageStats: one turn of the loop over repos, the request rejecting:
\* the catch logs and the loop goes on
FetchLanguagesFail ==
  /\ pc = "languages"
  /\ langIdx <= Len(repos)
  /\ requests' = Append(requests,
                   Request("languages", repos[langIdx].id, "rejected", None))
  /\ langIdx' = langIdx + 1
  /\ UNCHANGED <<token, username, srv, now, zone, pc, page, repos, repoIdx,
                 allDates, streaks, yearlyStats, languages, languageStats,
                 readmeFile, writes, error, exitCode>>

\* getLanguageStats after its loop: the summary it returns to main()
SummarizeLanguages ==
  /\ pc = "languages"
  /\ langIdx > Len(repos)
  /\ languageStats' = LanguageSummary(languages)
  /\ pc' = "render"
  /\ UNCHANGED <<token, username, srv, now, zone, page, repos, requests, repoIdx,
                 allDates, streaks, yearlyStats, langIdx, languages,
                 readmeFile, writes, error, exitCode>>

\* the instants new Date() of main() may give for the time of the update:
\* the clock is read again, after the language requests
UpdateTimes == now..(now + MaxElapsed)

\* main(): README.md is read, the four replacements are made on the text in
\* memory, and the text is written back
UpdateReadme ==
  /\ pc = "render"
  /\ \E t \in UpdateTimes :
       readmeFile' = RenderReadme(readmeFile, streaks, yearlyStats,
                                  languageStats, t)
  /\ writes' = writes + 1
  /\ pc' = "done"
  /\ exitCode' = 0
  /\ UNCHANGED <<token, username, srv, now, zone, page, repos, requests, repoIdx,
                 allDates, streaks, yearlyStats, langIdx, languages,
                 languageStats, error>>

\* main(): fs.readFileSync throws; main().catch logs the error and exits
\* with status 1, README.md as it was
ReadmeReadError ==
  /\ pc = "render"
  /\ pc' = "failed"
  /\ error' = "README.md"
  /\ exitCode' = 1
  /\ UNCHANGED <<token, username, srv, now, zone, page, repos, requests, repoIdx,
                 allDates, streaks, yearlyStats, langIdx, languages,
                 languageStats, readmeFile, writes>>

\* main(): fs.writeFileSync is called and throws.  When it throws as it
\* opens the file, README.md is as it was; when it throws later, it has
\* emptied README.md and written a part of the new text, which may be none
\* of it.  main().catch logs the error and exits with status 1
ReadmeWriteError ==
  /\ pc = "render"
  /\ \/ readmeFile' = readmeFile
     \/ \E t \in UpdateTimes, kept \in SUBSET DOMAIN readmeFile :
          readmeFile' = PartlyWritten(RenderReadme(readmeFile, streaks,
                                                   yearlyStats, languageStats,
                                                   t), kept)
  /\ writes' = writes + 1
  /\ pc' = "failed"
  /\ error' = "README.md"
  /\ exitCode' = 1
  /\ UNCHANGED <<token, username, srv, now, zone, page, repos, requests, repoIdx,
                 allDates, streaks, yearlyStats, langIdx, languages,
                 languageStats>>

\* main() is waiting for a request: of a listing page, of the commits of a
\* repository, or of its languages
Waiting ==
  \/ pc = "listing"
  \/ pc = "commits" /\ repoIdx <= Len(repos)
  \/ pc = "languages" /\ langIdx <= Len(repos)

WaitingKind == IF pc = "listing" THEN "repos" ELSE pc

WaitingArg ==
  IF pc = "listing" THEN page
  ELSE IF pc = "commits" THEN repos[repoIdx].id ELSE repos[langIdx].id

\* githubRequest: the response is cut short after its headers.  The
\* response never emits 'end' and the request emits no 'error', so the
\* promise is never settled: main() is never resumed, nothing is logged, the
\* event loop runs out of work and the process ends with status 0
ResponseCut ==
  /\ Waiting
  /\ requests' = Append(requests, Request(WaitingKind, WaitingArg, "cut", None))
  /\ pc' = "exited"
  /\ exitCode' = 0
  /\ UNCHANGED <<token, username, srv, now, zone, page, repos, repoIdx, allDates,
                 streaks, yearlyStats, langIdx, languages, languageStats,
                 readmeFile, writes, error>>

\* githubRequest: the body of a 200 response is no JSON.  JSON.parse throws
\* in the 'end' listener, outside the promise and outside every try of the
\* callers: the exception is uncaught and the process ends with status 1
ResponseNotJson ==
  /\ Waiting
  /\ ServerAccepts
  /\ requests' = Append(requests,
                   Request(WaitingKind, WaitingArg, "not JSON", None))
  /\ pc' = "failed"
  /\ error' = "SyntaxError"
  /\ exitCode' = 1
  /\ UNCHANGED <<token, username, srv, now, zone, page, repos, repoIdx, allDates,
                 streaks, yearlyStats, langIdx, languages, languageStats,
                 readmeFile, writes>>

Next ==
  \/ ListPageOk
  \/ ListPageFail
  \/ FetchCommitsOk(RunCommits)
  \/ FetchCommitsFail
  \/ CalculateStatistics
  \/ FetchLanguagesOk(RunLangResponses)
  \/ FetchLanguagesFail
  \/ SummarizeLanguages
  \/ UpdateReadme
  \/ ReadmeReadError
  \/ ReadmeWriteError
  \/ ResponseCut
  \/ ResponseNotJson

Spec == Init /\ [][Next]_vars

----------------------------------------------------------------------------
(* Runs that exercise the statistics: an account with one repository whose
   commits response has just been taken in *)

InitStats ==
  /\ token = TRUE
  /\ username = TRUE
  /\ srv = [n |-> 1, nonFork |-> {1}]
  /\ zone \in Zones
  /\ pc = "commits"
  /\ page = 2
  /\ repos = ServerPage(srv, 1)
  /\ \E first \in WindowFirsts :
       /\ now \in NowChoices(first)
       /\ \E commits \in StatsCommits(first) :
            /\ requests = <<Request("repos", 1, "resolved", 1),
                            Request("commits", 1, "resolved", commits)>>
            /\ allDates = CommitDates(commits)
  /\ repoIdx = 2
  /\ streaks = None
  /\ yearlyStats = None
  /\ langIdx = 1
  /\ languages = <<>>
  /\ languageStats = None
  /\ readmeFile = OldReadme
  /\ writes = 0
  /\ error = None
  /\ exitCode = -1

NextStats == CalculateStatistics

SpecStats == InitStats /\ [][NextStats]_vars

\* the statistics of the run have been calculated
Calculated == pc \in {"languages", "render", "done"}

\* the day numbers of the dates of allDates
ActiveDays == {DayNumber(d) : d \in SeqToSet(allDates)}

\* the days first..last are all in the set days
RunOfDays(days, first, last) == \A n \in first..last : n \in days

\* the number of consecutive days of the set days counted backward from today
DaysBackFromToday(days) ==
  CHOOSE k \in 0..Cardinality(days) :
    /\ RunOfDays(days, today - k + 1, today)
    /\ (today - k) \notin days

\* C4: calculateStreaks returns as current streak the number of consecutive
\* days, counted backward from today and including today, that are in the
\* date set: 0 when today is absent (also with yesterday present), 5 for
\* today and the 4 days before it, 1 for today followed by a gap; the empty
\* list gives {0, 0, 0}.  (today is the UTC date of the run, as the dates of
\* the commits are UTC dates.)
C4_CurrentStreak ==
  Calculated =>
    LET days == ActiveDays
    IN /\ streaks.current = DaysBackFromToday(days)
       /\ today \notin days => streaks.current = 0
       /\ days = (today - 4)..today => streaks.current = 5
       /\ (today \in days /\ (today - 1) \notin days) => streaks.current = 1
       /\ allDates = <<>> =>
            streaks = [current |-> 0, longest |-> 0, total |-> 0]

\* the length of the longest run of consecutive days of the set days
LongestRun(days) ==
  CHOOSE k \in 0..Cardinality(days) :
    /\ k > 0 => \E n \in days : RunOfDays(days, n, n + k - 1)
    /\ ~ \E n \in days : RunOfDays(days, n, n + k)

\* C5: for a non-empty list the longest streak is the length of the longest
\* run of consecutive days of the deduplicated date set, total the number of
\* distinct days, and current <= longest <= total.
C5_LongestStreak ==
  (Calculated /\ allDates # <<>>) =>
    /\ streaks.longest = LongestRun(ActiveDays)
    /\ streaks.total = Cardinality(SeqToSet(allDates))
    /\ streaks.current <= streaks.longest
    /\ streaks.longest <= streaks.total

\* dates with the elements at i and i + 1 exchanged
SwapAt(dates, i) ==
  [k \in 1..Len(dates) |->
     IF k = i THEN dates[i + 1] ELSE IF k = i + 1 THEN dates[i] ELSE dates[k]]

\* the years of the dates of allDates
YearsSeen == {d[1] : d \in SeqToSet(allDates)}

\* C8: calculateYearlyStats gives one entry per calendar year that has a
\* date, in descending year order, with the number of distinct dates of the
\* year and the number of input dates of the year; exchanging two adjacent
\* input dates (hence any permutation) gives the same summaries.
C8_YearlyStats ==
  Calculated =>
    LET years == YearsSeen
        dates == SeqToSet(allDates)
    IN /\ {yearlyStats[i].year : i \in 1..Len(yearlyStats)} = years
       /\ Len(yearlyStats) = Cardinality(years)
       /\ \A i \in 1..(Len(yearlyStats) - 1) :
            yearlyStats[i].year > yearlyStats[i + 1].year
       /\ \A i \in 1..Len(yearlyStats) :
            /\ yearlyStats[i].activeDays =
                 Cardinality({d \in dates : d[1] = yearlyStats[i].year})
            /\ yearlyStats[i].contributions =
                 Cardinality({k \in 1..Len(allDates) :
                                allDates[k][1] = yearlyStats[i].year})
       /\ \A i \in 1..(Len(allDates) - 1) :
            calculateYearlyStats(SwapAt(allDates, i), zone) = yearlyStats


----------------------------------------------------------------------------
(* Runs that exercise the language statistics: an account of non-fork
   repositories without commits, the statistics just calculated *)

InitLang ==
  /\ token = TRUE
  /\ username = TRUE
  /\ \E n \in 1..MaxLangRepos :
       /\ srv = [n |-> n, nonFork |-> 1..n]
       /\ requests = <<Request("repos", 1, "resolved", n)>> \o
                     [i \in 1..n |-> Request("commits", i, "resolved", <<>>)]
       /\ repoIdx = n + 1
  /\ now = Instant(<<2024, 3, 31>>, 23)
  /\ zone = Utc
  /\ pc = "languages"
  /\ page = 2
  /\ repos = ServerPage(srv, 1)
  /\ allDates = <<>>
  /\ streaks = calculateStreaks(<<>>, now, zone)
  /\ yearlyStats = calculateYearlyStats(<<>>, zone)
  /\ langIdx = 1
  /\ languages = <<>>
  /\ languageStats = None
  /\ readmeFile = OldReadme
  /\ writes = 0
  /\ error = None
  /\ exitCode = -1

NextLang ==
  \/ FetchLanguagesOk(LangResponses)
  \/ FetchLanguagesFail
  \/ ResponseCut
  \/ ResponseNotJson
  \/ SummarizeLanguages
  \/ UpdateReadme

SpecLang == InitLang /\ [][NextLang]_vars

\* getLanguageStats has returned
Summarized == pc \in {"render", "done"}

RECURSIVE SumPercentages(_)
SumPercentages(ps) ==
  IF ps = <<>> THEN 0 ELSE Head(ps).percentage + SumPercentages(Tail(ps))

\* the sum, in tenths, of the percentages of all the languages counted
PercentageSum == SumPercentages(LanguagePercentages(languages))

\* C6 as stated: the one-decimal percentages of all non-excluded languages
\* never sum to more than 100.0.
C6_SumAtMost100 == Summarized => PercentageSum <= 1000

\* C6, amended: every percentage is a tenth nearest to the exact share, one
\* of the two when the share is halfway between them, so the sum over the n
\* languages counted is within n times 0.05 of 100.0.
C6_SumWithinRounding ==
  (Summarized /\ languages # <<>>) =>
    LET ps    == LanguagePercentages(languages)
        total == TotalBytes(languages)
    IN /\ \A i \in 1..Len(languages) :
            LET d == 2 * ps[i].percentage * total - 2000 * languages[i][2]
            IN -total <= d /\ d <= total
       /\ 2 * SumPercentages(ps) <= 2000 + Len(languages)
       /\ 2 * SumPercentages(ps) >= 2000 - Len(languages)

\* three languages or more whose percentages sum to more than 100.0
C6_WitnessOver100 ==
  /\ Summarized
  /\ Len(languages) >= 3
  /\ PercentageSum > 1000

\* the names of a sequence of <<name, bytes>> entries or of summary records
EntryNames(entries) == {entries[i][1] : i \in 1..Len(entries)}
SummaryNames(stats) == {stats[i].name : i \in 1..Len(stats)}

\* the language requests that resolved, and the bytes their responses give
\* to the languages that are none of the three excluded names
CountedBytes(req) ==
  LET counted == SelectSeq(req.data,
                   LAMBDA e : e[1] \notin {"Open Policy Agent", "SCSS", "Scss"})
  IN TotalBytes(counted)

RECURSIVE CountedBytesOfRun(_)
CountedBytesOfRun(reqs) ==
  IF reqs = <<>> THEN 0
  ELSE (IF Head(reqs).kind = "languages" /\ Head(reqs).ok
        THEN CountedBytes(Head(reqs)) ELSE 0)
       + CountedBytesOfRun(Tail(reqs))

\* the names the resolved language requests of the run returned
ReturnedNames ==
  UNION {EntryNames(requests[i].data) :
           i \in {k \in 1..Len(requests) :
                    requests[k].kind = "languages" /\ requests[k].ok}}

\* C7: a language named exactly 'Open Policy Agent', 'SCSS' or 'Scss' is
\* never in the language summary nor in the rendered fragment, and its bytes
\* are not in the total of the percentages; a name that differs in letter
\* case only is counted.
C7_Excluded ==
  /\ EntryNames(languages) =
       ReturnedNames \ {"Open Policy Agent", "SCSS", "Scss"}
  /\ Summarized =>
       /\ SummaryNames(languageStats)
            \cap {"Open Policy Agent", "SCSS", "Scss"} = {}
       /\ TotalBytes(languages) = CountedBytesOfRun(requests)
       /\ LanguagePercentages(languages) =
            [i \in 1..Len(languages) |->
               [name       |-> languages[i][1],
                percentage |-> Percentage(languages[i][2],
                                          CountedBytesOfRun(requests))]]
       /\ ("scss" \in ReturnedNames /\ Len(languages) <= TopLanguages)
            => "scss" \in SummaryNames(languageStats)
  /\ pc = "done" =>
       /\ SummaryNames(readmeFile.languages)
            \cap {"Open Policy Agent", "SCSS", "Scss"} = {}
       /\ SummaryNames(readmeFile.languages) = SummaryNames(languageStats)

\* the README is written, an excluded language had the most bytes of all, and
\* 'scss' is in the fragment
C7_WitnessExcludedLargest ==
  /\ pc = "done"
  /\ \E i \in 1..Len(requests) :
       /\ requests[i].kind = "languages" /\ requests[i].ok
       /\ \E j \in 1..Len(requests[i].data) :
            /\ requests[i].data[j][1] = "SCSS"
            /\ \A k \in 1..Len(languages) :
                 languages[k][2] < requests[i].data[j][2]
  /\ "scss" \in SummaryNames(readmeFile.languages)

\* the position of a language in the object languages, and its bytes
PositionOf(name) == CHOOSE i \in 1..Len(languages) : languages[i][1] = name
BytesOf(name) == languages[PositionOf(name)][2]

\* the summary has at most 10 languages, in descending order of percentage
SummarySorted ==
  /\ Len(languageStats) <= TopLanguages
  /\ \A i \in 1..(Len(languageStats) - 1) :
       languageStats[i].percentage >= languageStats[i + 1].percentage

\* C9 as stated: at most 10 languages, by percentage descending, and of two
\* languages with the same one-decimal percentage the one with the larger
\* byte sum first, whatever the order they were met in.
C9_TiesByBytes ==
  Summarized =>
    /\ SummarySorted
    /\ \A i, j \in 1..Len(languageStats) :
         (i < j /\ languageStats[i].percentage = languageStats[j].percentage)
           => BytesOf(languageStats[i].name) >= BytesOf(languageStats[j].name)

\* C9, amended: at most 10 languages, by percentage descending, and of two
\* languages with the same one-decimal percentage the one met first across
\* the repositories first; the languages left out are those that come after
\* the 10th in that order.
C9_TiesByFirstMet ==
  Summarized =>
    LET mapped == LanguagePercentages(languages)
    IN /\ SummarySorted
       /\ Len(languageStats) =
            (IF Len(languages) < TopLanguages THEN Len(languages)
             ELSE TopLanguages)
       /\ \A i \in 1..Len(languageStats) :
            /\ languageStats[i].name \in EntryNames(languages)
            /\ languageStats[i] = mapped[PositionOf(languageStats[i].name)]
       /\ \A i, j \in 1..Len(languageStats) :
            (i < j /\ languageStats[i].percentage = languageStats[j].percentage)
              => PositionOf(languageStats[i].name)
                   < PositionOf(languageStats[j].name)
       /\ \A k \in 1..Len(languages) :
            languages[k][1] \notin SummaryNames(languageStats) =>
              \A i \in 1..Len(languageStats) :
                \/ languageStats[i].percentage > mapped[k].percentage
                \/ /\ languageStats[i].percentage = mapped[k].percentage
                   /\ PositionOf(languageStats[i].name) < k

\* more than 10 languages, and two with the same percentage of which the one
\* with fewer bytes, met first, comes first
C9_WitnessTie ==
  /\ Summarized
  /\ Len(languages) > TopLanguages
  /\ Len(languageStats) = TopLanguages
  /\ \E i \in 1..(Len(languageStats) - 1) :
       /\ languageStats[i].percentage = languageStats[i + 1].percentage
       /\ BytesOf(languageStats[i].name) < BytesOf(languageStats[i + 1].name)

----------------------------------------------------------------------------
(* The whole run: configuration, failures, listing *)

\* C1: with the credential token or the user name missing from the
\* environment the run stops at startup: no API request is issued and
\* README.md is not written.
C1_MissingConfigStops ==
  (~token \/ ~username) => (requests = <<>> /\ writes = 0)

\* the requests of one kind, in the order they were issued
RequestsOf(kind) == SelectSeq(requests, LAMBDA r : r.kind = kind)

\* the dates of the commit requests reqs: those of the commits of a resolved
\* request, none for a rejected one
RECURSIVE DatesOfRun(_)
DatesOfRun(reqs) ==
  IF reqs = <<>> THEN <<>>
  ELSE (IF Head(reqs).ok THEN CommitDates(Head(reqs).data) ELSE <<>>)
       \o DatesOfRun(Tail(reqs))

\* the bytes the resolved language requests reqs give to the language name
RECURSIVE BytesOfRun(_, _)
BytesOfRun(reqs, name) ==
  IF reqs = <<>> THEN 0
  ELSE (IF Head(reqs).ok
        THEN TotalBytes(SelectSeq(Head(reqs).data, LAMBDA e : e[1] = name))
        ELSE 0)
       + BytesOfRun(Tail(reqs), name)

\* the requests reqs are one per repository of repos, in the order of repos
OnePerRepo(reqs) ==
  /\ Len(reqs) = Len(repos)
  /\ \A i \in 1..Len(reqs) : reqs[i].arg = repos[i].id

\* the run is past its commit requests, resp. past its language requests
PastCommits ==
  pc \in {"languages", "render", "done"} \/ (pc = "failed" /\ error = "README.md")
PastLanguages ==
  pc \in {"render", "done"} \/ (pc = "failed" /\ error = "README.md")

\* the run has ended before README.md was reached
EndedEarly == pc \in {"failed", "exited"} /\ error # "README.md"

\* C2: whichever commit or language requests fail, the run goes on over all
\* the repositories to the README: a failed request gives its repository no
\* dates and no bytes, the dates and bytes of every other repository are
\* counted, and the process does not fail because of it.
C2_PerRepoFailureTolerated ==
  /\ EndedEarly => requests[Len(requests)].kind = "repos"
  /\ PastCommits =>
        /\ OnePerRepo(RequestsOf("commits"))
        /\ allDates = DatesOfRun(RequestsOf("commits"))
  /\ PastLanguages =>
        /\ OnePerRepo(RequestsOf("languages"))
        /\ \A name \in ReturnedNames \ {"Open Policy Agent", "SCSS", "Scss"} :
             BytesOf(name) = BytesOfRun(RequestsOf("languages"), name)
  /\ pc = "done" => (writes = 1 /\ exitCode = 0)

\* the pages of the listing, and the requests a complete run issues
PagesOfListing == srv.n \div PerPage + 1

\* C3: when the request of a listing page fails, the listing is given up
\* with no retry and no partial result: no commit or language request
\* follows, README.md is not written and the exit status is not 0.
\* README.md is written at most once in a run, after all the repository,
\* commit and language requests.
C3_ListingFailureAborts ==
  /\ \A i \in 1..Len(requests) :
       (requests[i].kind = "repos" /\ ~requests[i].ok) =>
         /\ i = Len(requests)
         /\ \A j \in 1..Len(requests) :
              /\ requests[j].kind = "repos"
              /\ j # i => requests[j].arg # requests[i].arg
         /\ exitCode > 0
         /\ writes = 0
         /\ readmeFile = OldReadme
  /\ writes <= 1
  /\ writes = 1 =>
       /\ Len(RequestsOf("repos")) = PagesOfListing
       /\ OnePerRepo(RequestsOf("commits"))
       /\ OnePerRepo(RequestsOf("languages"))
       /\ Len(requests) = PagesOfListing + 2 * Len(repos)
       /\ \A i \in 1..Len(requests) :
            requests[i].outcome \in {"resolved", "rejected"}

----------------------------------------------------------------------------
(* Runs of the listing alone.  A request in flight comes to its end: the
   response, its loss or the transport error reaches the event loop. *)

NextListing ==
  \/ ListPageOk
  \/ ListPageFail
  \/ pc = "listing" /\ ResponseCut
  \/ pc = "listing" /\ ResponseNotJson

SpecListing == Init /\ [][NextListing]_vars /\ WF_vars(NextListing)

\* the ids of the repositories of the account that are no forks, ascending
RECURSIVE Ascending(_)
Ascending(S) ==
  IF S = {} THEN <<>>
  ELSE LET least == CHOOSE x \in S : \A y \in S : x <= y
       IN <<least>> \o Ascending(S \ {least})

\* the pages are requested in order, one at a time, each after a full page;
\* the repositories taken in are the non-forks of the pages received, in
\* order; the listing returns after the first page that is not full
ListingInOrder ==
  /\ \A i \in 1..Len(requests) :
       /\ requests[i].kind = "repos"
       /\ requests[i].arg = i
       /\ i < Len(requests) => (requests[i].ok /\ requests[i].data = PerPage)
       /\ i <= PagesOfListing
  /\ page = Len(RequestsOf("repos"))
              + (IF pc \in {"failed", "exited"} THEN 0 ELSE 1)
  /\ \A i \in 1..Len(repos) : ~repos[i].fork
  /\ [i \in 1..Len(repos) |-> repos[i].id] =
       Ascending({id \in srv.nonFork : id <= (page - 1) * PerPage})
  /\ pc = "commits" =>
       /\ Len(requests) = PagesOfListing
       /\ requests[Len(requests)].data < PerPage
       /\ [i \in 1..Len(repos) |-> repos[i].id] = Ascending(srv.nonFork)

\* C10: getAllRepos requests the pages 1, 2, ..., k in order, one at a time,
\* k the first page with fewer than 100 items counted before the forks are
\* filtered out; it requests no page after k, it terminates, and it returns
\* the non-fork repositories of the pages 1..k in the order fetched.
C10_Listing == []ListingInOrder /\ <>(pc # "listing")

\* the first page is 100 forks and the listing goes on to the second page,
\* which has the one repository that is no fork
C10_WitnessForkPage ==
  /\ pc = "commits"
  /\ Len(requests) = 2
  /\ srv.nonFork = {PerPage + 1}
  /\ Len(repos) = 1

=============================================================================
